---- MODULE Spec2Model ----
(***************************************************************************)
(* natprobe client: the probe engine (package client).  Probe starts the   *)
(* firewall goroutine (blocked on the workingAddr channel), then           *)
(* probeMapping starts one probeOneMapping goroutine per mapping socket    *)
(* and collects their results from the unbuffered done channel.            *)
(*                                                                         *)
(* Spec and SpecCancel are runs of Probe, SpecFair the runs of Spec under   *)
(* fair scheduling; SpecTx follows a run from the                          *)
(* mapping deadline on together with the transmit goroutines; SpecServer   *)
(* is the reflection server's handle loop; SpecAnalyze and SpecAnonymize   *)
(* apply Result.Analyze and Result.Anonymize to bounded Results.           *)
(***************************************************************************)
EXTENDS Integers, Sequences, FiniteSets, TLC

(* ---------------------------------------------------------------- bounds *)

\* Number of mapping sockets of the run (Options.MappingSockets).
NumSockets == 2

\* Writes one transmit call makes in the runs explored.
MaxSends == 5

\* Length of the mapping probe lists given to Analyze, over all probes.
MaxProbes == 3

\* Length of the mapping probe lists given to Analyze, over three probes
\* (port preserved, port changed, timeout).
MaxTally == 5

\* Length of the received list of a FirewallProbe given to Analyze.
MaxReceived == 2

\* Length of each list (local IPs, mapping probes, received sources) of the
\* Results given to Anonymize.
MaxAnonList == 1

\* Events the environment contributes to one run: entries the receivers
\* record (mapping probes and firewall sources) and I/O failures (bind,
\* SetReadDeadline, read).  Datagrams that record nothing are not limited.
MaxEvents == 3

(* ------------------------------------------------------------- constants *)

\* A reflection is an 18-byte frame; every other length is skipped.
ReflectionLen == 18

\* A frame length that is not a reflection.
OtherLen == ReflectionLen - 1

\* make(chan *net.UDPAddr, 1)
HandoffCap == 1

(* -------------------------------------------------------------- endpoints *)

Sockets == 1..NumSockets

NilAddr == [IP |-> "<nil>", Port |-> 0]

\* The resolved server IPs and the probed ports of the run.
ServerIPs == <<"s1", "s2">>

ProbePorts == <<80>>

\* dests: the cartesian product, IPs outer, ports inner.
dests(ips, ports) ==
    [i \in 1..(Len(ips) * Len(ports)) |->
        [IP   |-> ips[((i - 1) \div Len(ports)) + 1],
         Port |-> ports[((i - 1) % Len(ports)) + 1]]]

Dests == dests(ServerIPs, ProbePorts)

DestSet == {Dests[i] : i \in 1..Len(Dests)}

\* An endpoint the client never transmitted to.
Stray == [IP |-> "x9", Port |-> 9]

\* Public endpoints a reflection can report.
MappedAddrs == {[IP |-> "p1", Port |-> 6000], [IP |-> "p1", Port |-> 6001]}

\* net.ListenUDP("udp4", &net.UDPAddr{}): unspecified IP, a port of the
\* kernel's choice, distinct for sockets that are open together.
LocalAddr(s) == [IP |-> "0.0.0.0", Port |-> 40000 + s]

FirewallLocal == [IP |-> "0.0.0.0", Port |-> 40000]

\* (*net.UDPAddr).String(): "ip:port", "<nil>" for a nil address.
AddrString(a) == IF a = NilAddr THEN <<"<nil>">> ELSE <<a.IP, ":", a.Port>>

\* MappingProbe.key(): fmt.Sprintf("%s %s %s %t", Local, Mapped, Remote, Timeout)
key(p) == <<AddrString(p.Local), AddrString(p.Mapped), AddrString(p.Remote), p.Timeout>>

\* Datagrams the network delivers to a client socket in the runs explored:
\* reflections from the first destination reporting either public endpoint,
\* a reflection from the stray endpoint, and a frame of another length.  The
\* last destination never answers.
Frames ==
    {[n |-> ReflectionLen, src |-> Dests[1], mapped |-> m] : m \in MappedAddrs}
      \cup {[n |-> ReflectionLen, src |-> Stray, mapped |-> [IP |-> "p1", Port |-> 6000]]}
      \cup {[n |-> OtherLen, src |-> Dests[1], mapped |-> NilAddr]}

(* ------------------------------------------------------------------ state *)

VARIABLES
    pcProbe,       \* Probe / probeMapping: "mapping", "waitFirewall", "returned"
    collected,     \* sockets whose result probeMapping has received, in order
    agg,           \* probeMapping's ret
    result,        \* the *Result Probe returned
    probeErr,      \* the error Probe returned
    pc,            \* per mapping socket: "init", "reading", "offering", "sending", "exited"
    ret,           \* probeOneMapping's local ret
    seen,          \* probeOneMapping's seen
    seenByDest,    \* probeOneMapping's seenByDest
    res,           \* the result value a socket task sends on done
    workingAddr,   \* the handoff channel: [buf, closed]
    handed,        \* destinations the firewall task received from the handoff
    fwPc,          \* firewall task: "waiting", "reading", "sending", "exited"
    fwRet,         \* probeFirewall's ret
    fwSeen,        \* probeFirewall's seen
    firewall,      \* Probe's firewall variable
    fwErr,         \* the error the firewall task sends on firewallDone
    mapDeadline,   \* the mapping phase's read deadline has passed
    ctxCancelled,  \* the caller cancelled the outer context
    panicked,      \* a goroutine panicked (send on a closed channel)
    conn,          \* per mapping socket: its UDP socket, "none", "open", "closed"
    fwConn,        \* the firewall task's UDP socket
    firstOffer,    \* the first destination a send placed in the handoff
    tx,            \* per transmit call: its goroutines, req[0], writes made
    server,        \* the reflection server: listeners, last request and reply
    analysis,      \* a Result given to Analyze and the Analysis returned
    anonymized     \* a Result given to Anonymize and what the call left

vars == <<pcProbe, collected, agg, result, probeErr, pc, ret, seen, seenByDest,
          res, workingAddr, handed, fwPc, fwRet, fwSeen, firewall, fwErr,
          mapDeadline, ctxCancelled, panicked, conn, fwConn, firstOffer, tx,
          server, analysis, anonymized>>

probeVars == <<pcProbe, collected, agg, result, probeErr>>
sockVars == <<pc, ret, seen, seenByDest, res, conn>>
fwVars == <<fwPc, fwRet, fwSeen, firewall, fwErr, handed, fwConn>>

\* The state of the server command and of the pure functions of the client
\* package, which no step of Probe touches.
fnVars == <<server, analysis, anonymized>>

NilFirewall == [nil |-> TRUE, Local |-> NilAddr, Remote |-> NilAddr, Received |-> <<>>]

NilResult == [nil |-> TRUE, MappingProbes |-> <<>>, FirewallProbes |-> NilFirewall]

NoResult == [probes |-> <<>>, err |-> "none"]

\* The transmit calls of a run: one per mapping socket, under the socket's
\* number, and the firewall task's.
FirewallTx == 0

TxIds == {FirewallTx} \cup Sockets

\* transmit(ctx, conn, dests, txInterval, cycle): cycle is false in
\* probeOneMapping's call and true in probeFirewall's.
Cycle(t) == t = FirewallTx

\* No transmit call was made.
NoTx == [g |-> <<>>, req0 |-> 0, sent |-> 0, lastOk |-> TRUE]

\* go transmit(...) with n destinations: var req [180]byte is zero, and one
\* goroutine per destination is about to make its first write.
StartTx(n) == [g |-> [d \in 1..n |-> "start"], req0 |-> 0, sent |-> 0, lastOk |-> TRUE]

\* The server command, Analyze and Anonymize are not part of a Probe call.
NotRun == "not run"

FnIdle ==
    /\ server = NotRun
    /\ analysis = NotRun
    /\ anonymized = NotRun

\* Probe has started the firewall goroutine and entered probeMapping.
ProbeInit ==
    /\ pcProbe = "mapping"
    /\ collected = <<>>
    /\ agg = <<>>
    /\ result = NilResult
    /\ probeErr = "none"
    /\ pc = [s \in Sockets |-> "init"]
    /\ ret = [s \in Sockets |-> <<>>]
    /\ seen = [s \in Sockets |-> {}]
    /\ seenByDest = [s \in Sockets |-> {}]
    /\ res = [s \in Sockets |-> NoResult]
    /\ workingAddr = [buf |-> <<>>, closed |-> FALSE]
    /\ handed = <<>>
    /\ fwPc = "waiting"
    /\ fwRet = NilFirewall
    /\ fwSeen = {}
    /\ firewall = NilFirewall
    /\ fwErr = "none"
    /\ mapDeadline = FALSE
    /\ ctxCancelled = FALSE
    /\ panicked = FALSE
    /\ conn = [s \in Sockets |-> "none"]
    /\ fwConn = "none"
    /\ firstOffer = NilAddr
    /\ tx = [t \in TxIds |-> NoTx]

Init == ProbeInit /\ FnIdle

\* The entries recorded so far: one per key in a socket's seen, one per
\* string in the firewall task's seen.
RECURSIVE SumSeen(_)
SumSeen(S) ==
    IF S = {} THEN 0
    ELSE LET s == CHOOSE x \in S : TRUE IN Cardinality(seen[s]) + SumSeen(S \ {s})

Recorded == SumSeen(Sockets) + Cardinality(fwSeen)

\* The I/O failures so far: socket tasks that returned an error, and the
\* firewall task if it did.
IOErrors == {"bind", "setdeadline", "read"}

Failures ==
    Cardinality({s \in Sockets : res[s].err \in IOErrors})
      + (IF fwErr \in IOErrors THEN 1 ELSE 0)

Events == Recorded + Failures

(* ---------------------------------------------------------------- handoff *)

\* A plain send, workingAddr <- v, waits while the buffer is full.
TrySend_Blocking(ch, v) ==
    IF Len(ch.buf) < HandoffCap
    THEN [ch |-> [ch EXCEPT !.buf = Append(@, v)], blocked |-> FALSE]
    ELSE [ch |-> ch, blocked |-> TRUE]

\* An offer that replaces the buffered value.
TrySend_Replace(ch, v) == [ch |-> [ch EXCEPT !.buf = <<v>>], blocked |-> FALSE]

\* select { case workingAddr <- v: default: } on an open channel: the value
\* is buffered when there is room and dropped otherwise; the sender never
\* waits.
TrySend(ch, v) ==
    IF Len(ch.buf) < HandoffCap
    THEN [ch |-> [ch EXCEPT !.buf = Append(@, v)], blocked |-> FALSE]
    ELSE [ch |-> ch, blocked |-> FALSE]

\* defer close(workingAddr)
Close(ch) == [ch EXCEPT !.closed = TRUE]

(* ---------------------------------------------------------- probeMapping *)

\* The probes of a result spread between the probes collected before.
Aggregate_Zip(a, probes) ==
    [i \in 1..(Len(a) + Len(probes)) |->
        IF i <= 2 * Len(a) /\ i <= 2 * Len(probes)
        THEN (IF i % 2 = 1 THEN a[(i + 1) \div 2] ELSE probes[i \div 2])
        ELSE (IF Len(a) > Len(probes) THEN a[i - Len(probes)] ELSE probes[i - Len(a)])]

\* The probes of a result put before the probes collected before.
Aggregate_Prepend(a, probes) == probes \o a

\* ret = append(ret, res.probes...)
Aggregate(a, probes) == a \o probes

\* A loop that skips the error of a result.
Aborts_Never(r) == FALSE

\* if res.err != nil { return nil, res.err }

Aborts(r) == r.err # "none"

\* res := <-done in probeMapping's loop, receiving r from socket task s.  An
\* error returns at once; after the last result the function returns the
\* list.  Either return runs the deferred cancel() and close(workingAddr),
\* and an error makes Probe return nil, err.
Collect(s, r) ==
    /\ collected' = Append(collected, s)
    /\ IF Aborts(r)
       THEN /\ workingAddr' = Close(workingAddr)
            /\ pcProbe' = "returned"
            /\ result' = NilResult
            /\ probeErr' = r.err
            /\ UNCHANGED agg
       ELSE /\ agg' = Aggregate(agg, r.probes)
            /\ IF Len(collected') = NumSockets
               THEN /\ workingAddr' = Close(workingAddr)
                    /\ pcProbe' = "waitFirewall"
               ELSE UNCHANGED <<workingAddr, pcProbe>>
            /\ UNCHANGED <<result, probeErr>>

\* done <- result{probes: res, err: err}: the channel is unbuffered, its
\* only receiver is probeMapping's loop, and waiting senders are served in
\* the order they arrived.  While the loop runs the send and its receive are
\* one step; once probeMapping has returned nobody receives and the task
\* stays blocked in the send.
SendDone(s, r) ==
    /\ res' = [res EXCEPT ![s] = r]
    /\ IF pcProbe = "mapping"
       THEN /\ pc' = [pc EXCEPT ![s] = "exited"]
            /\ Collect(s, r)
       ELSE /\ pc' = [pc EXCEPT ![s] = "sending"]
            /\ UNCHANGED <<probeVars, workingAddr>>

(* ------------------------------------------------------ probeOneMapping *)

\* The deferred scan of dests: a timeout record for every destination whose
\* string is not in seenByDest.
RECURSIVE TimeoutScan(_, _, _)
TimeoutScan(s, byDest, i) ==
    IF i > Len(Dests) THEN <<>>
    ELSE (IF AddrString(Dests[i]) \in byDest
          THEN <<>>
          ELSE <<[Local |-> LocalAddr(s), Mapped |-> NilAddr,
                  Remote |-> Dests[i], Timeout |-> TRUE]>>)
         \o TimeoutScan(s, byDest, i + 1)

\* The deferred function appends the timeout records to the local ret.
DeferredRet(s, r, byDest) == r \o TimeoutScan(s, byDest, 1)

\* "return ret, nil" with unnamed results: the result slot is assigned from
\* ret when the return statement runs, before the deferred function; what
\* the deferred function appends to the local afterwards is not returned.
ReturnedProbes(atReturn, afterDefer) == atReturn

\* The probe built from a reflection read on socket s.
ProbeOf(s, f) ==
    [Local |-> LocalAddr(s), Mapped |-> f.mapped, Remote |-> f.src, Timeout |-> FALSE]

\* A read loop that records every reflection.
Fresh_Always(sn, byDest, p) == TRUE

\* if !seen[probe.key()]
Fresh(sn, byDest, p) == key(p) \notin sn

\* A read loop that never marks a key as seen.
Remember_Forget(sn, p) == sn

\* seen[probe.key()] = true
Remember(sn, p) == sn \cup {key(p)}

\* A task that returns without closing its socket.
ConnClose_Leak(c) == c

\* conn.Close() in probeOneMapping's deferred function, defer conn.Close()
\* in probeFirewall: both are registered right after the bind succeeded and
\* run when the function returns, before its result is sent.
ConnClose(c) == "closed"

\* net.ListenUDP, SetReadDeadline, go transmit.  A bind failure returns
\* before the defer is registered; a SetReadDeadline failure returns nil
\* after it.
StartSocket(s) ==
    /\ ~panicked
    /\ pc[s] = "init"
    /\ \E outcome \in {"ok", "bind", "setdeadline"} :
         /\ outcome \in IOErrors => Events < MaxEvents
         /\ IF outcome = "ok"
            THEN /\ pc' = [pc EXCEPT ![s] = "reading"]
                 /\ conn' = [conn EXCEPT ![s] = "open"]
                 /\ tx' = [tx EXCEPT ![s] = StartTx(Len(Dests))]
                 /\ UNCHANGED <<ret, res, probeVars, workingAddr>>
            ELSE /\ SendDone(s, [probes |-> <<>>, err |-> outcome])
                 /\ ret' = [ret EXCEPT ![s] =
                              IF outcome = "bind" THEN @
                              ELSE DeferredRet(s, @, seenByDest[s])]
                 /\ conn' = [conn EXCEPT ![s] =
                               IF outcome = "bind" THEN @ ELSE ConnClose("open")]
                 /\ UNCHANGED tx
    /\ UNCHANGED <<seen, seenByDest, fwVars, mapDeadline, ctxCancelled, panicked,
                   firstOffer, fnVars>>

\* The first destination a send placed in the handoff: a send places its
\* value when the buffer holds one value more after it.
FirstPlaced(first, before, after, v) ==
    IF first = NilAddr /\ Len(after.buf) > Len(before.buf) THEN v ELSE first

\* One iteration of the read loop that reads a datagram.
RecvMapping(s) ==
    /\ ~panicked
    /\ pc[s] = "reading"
    /\ ~mapDeadline
    /\ \E f \in Frames :
         IF f.n # ReflectionLen
         THEN UNCHANGED <<sockVars, workingAddr, panicked, firstOffer>>
         ELSE LET probe == ProbeOf(s, f) IN
              /\ Fresh(seen[s], seenByDest[s], probe) => Events < MaxEvents
              /\ IF Fresh(seen[s], seenByDest[s], probe)
                 THEN /\ ret' = [ret EXCEPT ![s] = Append(@, probe)]
                      /\ seen' = [seen EXCEPT ![s] = Remember(@, probe)]
                      /\ seenByDest' = [seenByDest EXCEPT ![s] = @ \cup {AddrString(f.src)}]
                      /\ IF workingAddr.closed
                         THEN /\ panicked' = TRUE
                              /\ UNCHANGED <<workingAddr, pc, firstOffer>>
                         ELSE LET t == TrySend(workingAddr, f.src) IN
                              /\ workingAddr' = t.ch
                              /\ pc' = [pc EXCEPT ![s] = IF t.blocked THEN "offering" ELSE @]
                              /\ firstOffer' = FirstPlaced(firstOffer, workingAddr, t.ch, f.src)
                              /\ UNCHANGED panicked
                 ELSE UNCHANGED <<ret, seen, seenByDest, workingAddr, pc, panicked,
                                  firstOffer>>
              /\ UNCHANGED <<res, conn>>
    /\ UNCHANGED <<probeVars, fwVars, mapDeadline, ctxCancelled, tx, fnVars>>

\* if err, ok := err.(net.Error); ok && err.Timeout() { return ret, nil }:
\* the error returned for a read that ended at the deadline.
TimeoutErr == "none"

\* ReadFromUDP fails with a timeout: return ret, nil; then the deferred
\* function runs.
ReadTimeout(s) ==
    /\ ~panicked
    /\ pc[s] = "reading"
    /\ mapDeadline
    /\ LET afterDefer == DeferredRet(s, ret[s], seenByDest[s]) IN
         /\ SendDone(s, [probes |-> ReturnedProbes(ret[s], afterDefer), err |-> TimeoutErr])
         /\ ret' = [ret EXCEPT ![s] = afterDefer]
    /\ conn' = [conn EXCEPT ![s] = ConnClose(@)]
    /\ UNCHANGED <<seen, seenByDest, fwVars, mapDeadline, ctxCancelled, panicked,
                   firstOffer, tx, fnVars>>

\* ReadFromUDP fails with another error: return nil, err.
ReadError(s) ==
    /\ ~panicked
    /\ pc[s] = "reading"
    /\ Events < MaxEvents
    /\ SendDone(s, [probes |-> <<>>, err |-> "read"])
    /\ ret' = [ret EXCEPT ![s] = DeferredRet(s, @, seenByDest[s])]
    /\ conn' = [conn EXCEPT ![s] = ConnClose(@)]
    /\ UNCHANGED <<seen, seenByDest, fwVars, mapDeadline, ctxCancelled, panicked,
                   firstOffer, tx, fnVars>>

\* The deadline of the mapping phase's context passes.
MappingDeadline ==
    /\ ~panicked
    /\ ~mapDeadline
    /\ mapDeadline' = TRUE
    /\ UNCHANGED <<probeVars, sockVars, workingAddr, fwVars, ctxCancelled,
                   panicked, firstOffer, tx, fnVars>>

(* --------------------------------------------------------- probeFirewall *)

\* dest := <-workingAddr: a buffered destination, or nil once the channel is
\* closed and empty.  if dest == nil { return nil, fmt.Errorf(...) }
NilDestError == "noworking"

\* The firewall task receives from the handoff, then binds its socket, sets
\* the read deadline and starts its transmitter.
StartFirewall ==
    /\ ~panicked
    /\ fwPc = "waiting"
    /\ IF Len(workingAddr.buf) > 0
       THEN /\ workingAddr' = [workingAddr EXCEPT !.buf = Tail(@)]
            /\ handed' = Append(handed, Head(workingAddr.buf))
            /\ \E outcome \in {"ok", "bind", "setdeadline"} :
                 /\ outcome \in IOErrors => Events < MaxEvents
                 /\ IF outcome = "ok"
                    THEN /\ fwPc' = "reading"
                         /\ fwRet' = [nil |-> FALSE, Local |-> FirewallLocal,
                                      Remote |-> Head(workingAddr.buf), Received |-> <<>>]
                         /\ fwConn' = "open"
                         /\ tx' = [tx EXCEPT ![FirewallTx] = StartTx(1)]
                         /\ UNCHANGED fwErr
                    ELSE /\ fwPc' = "sending"
                         /\ fwErr' = outcome
                         /\ fwConn' = IF outcome = "bind" THEN fwConn ELSE ConnClose("open")
                         /\ UNCHANGED <<fwRet, tx>>
       ELSE /\ workingAddr.closed
            /\ fwPc' = "sending"
            /\ fwErr' = NilDestError
            /\ UNCHANGED <<workingAddr, handed, fwRet, fwConn, tx>>
    /\ UNCHANGED <<probeVars, sockVars, fwSeen, firewall, mapDeadline,
                   ctxCancelled, panicked, firstOffer, fnVars>>

\* A read loop that records the source of every reflection.
Received_Always(r, sn, f) == [r EXCEPT !.Received = Append(@, f.src)]

\* if !seen[addr.String()] { ret.Received = append(ret.Received, addr) }
Received(r, sn, f) ==
    IF AddrString(f.src) \in sn THEN r ELSE [r EXCEPT !.Received = Append(@, f.src)]

\* One iteration of the firewall read loop that reads a datagram.
RecvFirewall ==
    /\ ~panicked
    /\ fwPc = "reading"
    /\ \E f \in Frames :
         IF f.n # ReflectionLen
         THEN UNCHANGED <<fwRet, fwSeen>>
         ELSE /\ AddrString(f.src) \notin fwSeen => Events < MaxEvents
              /\ fwRet' = Received(fwRet, fwSeen, f)
              /\ fwSeen' = fwSeen \cup {AddrString(f.src)}
    /\ UNCHANGED <<probeVars, sockVars, workingAddr, fwPc, firewall, fwErr, handed,
                   mapDeadline, ctxCancelled, panicked, fwConn, firstOffer, tx,
                   fnVars>>

\* The firewall read deadline passes: return &ret, nil; firewall = fw.
FirewallTimeout ==
    /\ ~panicked
    /\ fwPc = "reading"
    /\ fwPc' = "sending"
    /\ firewall' = fwRet
    /\ fwErr' = TimeoutErr
    /\ fwConn' = ConnClose(fwConn)
    /\ UNCHANGED <<probeVars, sockVars, workingAddr, fwRet, fwSeen, handed,
                   mapDeadline, ctxCancelled, panicked, firstOffer, tx, fnVars>>

\* ReadFromUDP fails with another error: return nil, err.
FirewallReadError ==
    /\ ~panicked
    /\ fwPc = "reading"
    /\ Events < MaxEvents
    /\ fwPc' = "sending"
    /\ fwErr' = "read"
    /\ fwConn' = ConnClose(fwConn)
    /\ UNCHANGED <<probeVars, sockVars, workingAddr, fwRet, fwSeen, firewall, handed,
                   mapDeadline, ctxCancelled, panicked, firstOffer, tx, fnVars>>

(* ------------------------------------------------------------------ Probe *)

\* if err = <-firewallDone; err != nil { return nil, err }; return &Result{...}
JoinFirewall ==
    /\ ~panicked
    /\ pcProbe = "waitFirewall"
    /\ fwPc = "sending"
    /\ fwPc' = "exited"
    /\ pcProbe' = "returned"
    /\ IF fwErr # "none"
       THEN /\ result' = NilResult
            /\ probeErr' = fwErr
       ELSE /\ result' = [nil |-> FALSE, MappingProbes |-> agg, FirewallProbes |-> firewall]
            /\ probeErr' = "none"
    /\ UNCHANGED <<collected, agg, sockVars, workingAddr, fwRet, fwSeen, firewall,
                   fwErr, handed, mapDeadline, ctxCancelled, panicked, fwConn,
                   firstOffer, tx, fnVars>>

\* A receiver of either phase is in its read loop.
PhaseRunning == fwPc = "reading" \/ \E s \in Sockets : pc[s] = "reading"

\* The caller cancels the context it gave to Probe.  No receiver watches the
\* context: its reads end at the read deadline only.
CancelOuter ==
    /\ ~panicked
    /\ ~ctxCancelled
    /\ pcProbe # "returned"
    /\ PhaseRunning
    /\ ctxCancelled' = TRUE
    /\ UNCHANGED <<probeVars, sockVars, workingAddr, fwVars, mapDeadline,
                   panicked, firstOffer, tx, fnVars>>

Next ==
    \/ \E s \in Sockets : StartSocket(s)
    \/ \E s \in Sockets : RecvMapping(s)
    \/ \E s \in Sockets : ReadTimeout(s)
    \/ \E s \in Sockets : ReadError(s)
    \/ MappingDeadline
    \/ StartFirewall
    \/ RecvFirewall
    \/ FirewallTimeout
    \/ FirewallReadError
    \/ JoinFirewall

Spec == Init /\ [][Next]_vars

\* The same run with a caller that may cancel the context.
NextCancel == Next \/ CancelOuter

SpecCancel == Init /\ [][NextCancel]_vars

\* What the Go scheduler and the clock guarantee of a run: a goroutine that
\* can take its next step takes it (a socket task binds its socket, the
\* firewall goroutine receives from the handoff once a value is buffered or
\* the channel is closed, Probe receives from firewallDone once the
\* firewall goroutine sends), and the deadlines pass, so a read that waits
\* at a passed deadline returns.  Nothing makes a datagram arrive or a read
\* fail.
Fairness ==
    /\ \A s \in Sockets : WF_vars(StartSocket(s)) /\ WF_vars(ReadTimeout(s))
    /\ WF_vars(MappingDeadline)
    /\ WF_vars(StartFirewall)
    /\ WF_vars(FirewallTimeout)
    /\ WF_vars(JoinFirewall)

\* The run of Probe under that scheduling.
SpecFair == Init /\ [][Next]_vars /\ Fairness

(* --------------------------------------------------------------- transmit *)

\* A transmitter that never changes byte 0.
NextReq0_Keep(t, r) == r

\* if cycle { req[0] = (req[0] + 1) % 4 }: the byte the next request
\* carries, computed before the write.
NextReq0(t, r) == IF Cycle(t) THEN (r + 1) % 4 ELSE r

\* A goroutine that returns when its write fails.
AfterWrite_StopOnError(ok) == IF ok THEN "select" ELSE "done"

\* if _, err := conn.WriteToUDP(req[:], dest); err != nil { }: the error is
\* dropped and the goroutine goes on to its select.
AfterWrite(ok) == "select"

\* The socket a transmit call writes to.
TxConn(t) == IF t = FirewallTx THEN fwConn ELSE conn[t]

\* ctx.Done() of a transmit call is closed.  A mapping socket's context is
\* cancelled by the deferred cancel() of probeOneMapping and of
\* probeMapping and ends at the phase deadline; the firewall task's ends
\* with probeFirewall (deadline and deferred cancel()); both descend from
\* the caller's context.
CtxDone(t) ==
    \/ ctxCancelled
    \/ IF t = FirewallTx
       THEN fwPc # "reading"
       ELSE mapDeadline \/ pc[t] \notin {"init", "reading", "offering"} \/ pcProbe # "mapping"

\* One iteration of the goroutine of destination d: the first, or the next
\* after time.After(txInterval) fired in the select.  A write on a closed
\* socket fails; any write may fail.
TxWrite(t, d, ok) ==
    /\ ~panicked
    /\ d \in DOMAIN tx[t].g
    /\ tx[t].g[d] \in {"start", "select"}
    /\ tx[t].sent < MaxSends
    /\ ok => TxConn(t) = "open"
    /\ tx' = [tx EXCEPT ![t] = [g      |-> [@.g EXCEPT ![d] = AfterWrite(ok)],
                                req0   |-> NextReq0(t, @.req0),
                                sent   |-> @.sent + 1,
                                lastOk |-> ok]]
    /\ UNCHANGED <<probeVars, sockVars, workingAddr, fwVars, mapDeadline,
                   ctxCancelled, panicked, firstOffer, fnVars>>

\* case <-ctx.Done(): return
TxStop(t, d) ==
    /\ ~panicked
    /\ d \in DOMAIN tx[t].g
    /\ tx[t].g[d] = "select"
    /\ CtxDone(t)
    /\ tx' = [tx EXCEPT ![t].g[d] = "done"]
    /\ UNCHANGED <<probeVars, sockVars, workingAddr, fwVars, mapDeadline,
                   ctxCancelled, panicked, firstOffer, fnVars>>

\* The reflection the first mapping socket recorded in the state InitLate.
LateFrame == [n |-> ReflectionLen, src |-> Dests[1], mapped |-> [IP |-> "p1", Port |-> 6000]]

\* A goroutine of every destination has written once and is in its select
\* (st = "select") or has returned (st = "done").
LateTx(st) ==
    [g |-> [d \in 1..Len(Dests) |-> st], req0 |-> 0, sent |-> Len(Dests), lastOk |-> TRUE]

\* A state of a run in which the mapping deadline has passed: every mapping
\* socket but the first has returned at the deadline with nothing received
\* and was collected, and its transmitter has stopped; the first socket
\* recorded one reflection, offered its source, and has not yet returned
\* from its read; the firewall goroutine has not yet received the offer.
InitLate ==
    /\ pcProbe = "mapping"
    /\ collected = [i \in 1..(NumSockets - 1) |-> i + 1]
    /\ agg = <<>>
    /\ result = NilResult
    /\ probeErr = "none"
    /\ pc = [s \in Sockets |-> IF s = 1 THEN "reading" ELSE "exited"]
    /\ ret = [s \in Sockets |-> IF s = 1 THEN <<ProbeOf(1, LateFrame)>>
                                 ELSE DeferredRet(s, <<>>, {})]
    /\ seen = [s \in Sockets |-> IF s = 1 THEN {key(ProbeOf(1, LateFrame))} ELSE {}]
    /\ seenByDest = [s \in Sockets |-> IF s = 1 THEN {AddrString(LateFrame.src)} ELSE {}]
    /\ res = [s \in Sockets |-> NoResult]
    /\ workingAddr = [buf |-> <<LateFrame.src>>, closed |-> FALSE]
    /\ handed = <<>>
    /\ fwPc = "waiting"
    /\ fwRet = NilFirewall
    /\ fwSeen = {}
    /\ firewall = NilFirewall
    /\ fwErr = "none"
    /\ mapDeadline = TRUE
    /\ ctxCancelled = FALSE
    /\ panicked = FALSE
    /\ conn = [s \in Sockets |-> IF s = 1 THEN "open" ELSE "closed"]
    /\ fwConn = "none"
    /\ firstOffer = LateFrame.src
    /\ tx = [t \in TxIds |-> IF t = FirewallTx THEN NoTx
                              ELSE LateTx(IF t = 1 THEN "select" ELSE "done")]
    /\ FnIdle

\* The steps of a run after the mapping deadline, with the steps of the
\* transmit goroutines.  No mapping socket reads a datagram after the
\* deadline.
NextTx ==
    \/ \E s \in Sockets : ReadTimeout(s)
    \/ \E s \in Sockets : ReadError(s)
    \/ StartFirewall
    \/ RecvFirewall
    \/ FirewallTimeout
    \/ FirewallReadError
    \/ JoinFirewall
    \/ \E t \in TxIds : \E d \in 1..Len(Dests) : \E ok \in BOOLEAN : TxWrite(t, d, ok)
    \/ \E t \in TxIds : \E d \in 1..Len(Dests) : TxStop(t, d)

SpecTx == InitLate /\ [][NextTx]_vars

(* ----------------------------------------------------------------- server *)

\* The variables of a Probe call, which the server command and the pure
\* functions leave alone.
probeAll == <<probeVars, sockVars, workingAddr, fwVars, mapDeadline, ctxCancelled,
              panicked, firstOffer, tx>>

\* if n != 180 { continue }
RequestLen == 180

\* The -ports flag of a server: one port, or two.
ServerPortConfigs == {<<80>>, <<80, 443>>}

\* Client endpoints as the server sees them, and the first bytes a datagram
\* can carry.
Clients == {[IP |-> "p1", Port |-> 6000], [IP |-> "p2", Port |-> 6001]}

Byte0s == 0..7

NoReq == [on |-> 0, n |-> 0, b0 |-> 0, from |-> NilAddr, wrOk |-> FALSE]

NoReply == [from |-> NilAddr, to |-> NilAddr, payload |-> NilAddr]

\* varyAddr, varyPort := buf[0]&1 != 0, buf[0]&2 != 0
VaryAddr(b0) == b0 % 2 = 1

VaryPort(b0) == (b0 \div 2) % 2 = 1

\* A server that answers from the listener the request arrived on.
Select_Receiver(conns, my, varyAddr, varyPort, j) == my

\* for _, c := range s.conns: the first listener, from index j on, that
\* passes both tests; 0 (a nil respConn) when none does.
RECURSIVE Select(_, _, _, _, _)
Select(conns, my, varyAddr, varyPort, j) ==
    IF j > Len(conns) THEN 0
    ELSE IF (conns[j].IP = conns[my].IP) = varyAddr
         THEN Select(conns, my, varyAddr, varyPort, j + 1)
         ELSE IF (conns[j].Port = conns[my].Port) = varyPort
              THEN Select(conns, my, varyAddr, varyPort, j + 1)
              ELSE j

\* newServer: one listener per (public IP, port), IPs outer, ports inner.
InitServer ==
    /\ ProbeInit
    /\ analysis = NotRun
    /\ anonymized = NotRun
    /\ \E ports \in ServerPortConfigs :
         server = [conns |-> dests(ServerIPs, ports), req |-> NoReq,
                   reply |-> NoReply, alive |-> TRUE]

\* One iteration of handle's loop on listener i: a datagram of n bytes with
\* first byte b0 from client c (n = 0: the read failed or the datagram was
\* empty).  WriteToUDP on a nil *UDPConn returns an error, as a failed
\* write does; either is logged and the loop goes on.
Handle(i, n, b0, c, wrOk) ==
    /\ server.alive
    /\ i \in DOMAIN server.conns
    /\ LET req == [on |-> i, n |-> n, b0 |-> b0, from |-> c, wrOk |-> wrOk]
           respConn == Select(server.conns, i, VaryAddr(b0), VaryPort(b0), 1)
       IN server' = [server EXCEPT
                       !.req = req,
                       !.reply = IF n = RequestLen /\ respConn # 0 /\ wrOk
                                 THEN [from |-> server.conns[respConn], to |-> c,
                                       payload |-> c]
                                 ELSE NoReply]
    /\ UNCHANGED <<probeAll, analysis, anonymized>>

NextServer ==
    \E i \in 1..(Len(ServerIPs) * 2) : \E n \in {RequestLen, ReflectionLen, 0} :
        \E b0 \in Byte0s : \E c \in Clients : \E wrOk \in BOOLEAN :
            Handle(i, n, b0, c, wrOk)

SpecServer == InitServer /\ [][NextServer]_vars

(* ---------------------------------------------------------------- Analyze *)

\* All sequences over S of length at most n.
Lists(S, n) == UNION {[1..k -> S] : k \in 0..n}

\* The endpoints of the probes given to Analyze.
AnLocals == {[IP |-> "0.0.0.0", Port |-> 6000], [IP |-> "0.0.0.0", Port |-> 6001]}

AnRemotes == {[IP |-> "s1", Port |-> 80], [IP |-> "s2", Port |-> 80],
              [IP |-> "s1", Port |-> 443]}

AnMapped == {[IP |-> "p1", Port |-> 6000], [IP |-> "p1", Port |-> 6001],
             [IP |-> "p2", Port |-> 6000]}

AnSources == AnRemotes \cup {[IP |-> "s2", Port |-> 443]}

\* Mapping probes: every reply, and a timeout record for two destinations.
AnProbes ==
    {[Local |-> l, Mapped |-> m, Remote |-> r, Timeout |-> FALSE] :
        l \in AnLocals, m \in AnMapped, r \in AnRemotes}
      \cup {[Local |-> [IP |-> "0.0.0.0", Port |-> 6000], Mapped |-> NilAddr,
              Remote |-> [IP |-> "s1", Port |-> p], Timeout |-> TRUE] : p \in {80, 443}}

\* A reply that kept the source port, one that did not, and a timeout.
TallyProbes ==
    {[Local |-> [IP |-> "0.0.0.0", Port |-> 6000], Mapped |-> [IP |-> "p1", Port |-> p],
      Remote |-> [IP |-> "s1", Port |-> 80], Timeout |-> FALSE] : p \in {6000, 6001}}
      \cup {[Local |-> [IP |-> "0.0.0.0", Port |-> 6000], Mapped |-> NilAddr,
              Remote |-> [IP |-> "s1", Port |-> 80], Timeout |-> TRUE]}

AnFirewalls ==
    {NilFirewall}
      \cup {[nil |-> FALSE, Local |-> FirewallLocal, Remote |-> [IP |-> "s1", Port |-> 80],
              Received |-> rc] : rc \in Lists(AnSources, MaxReceived)}

\* The Results given to Analyze: a list of mapping probes without a
\* firewall probe, or a firewall probe without mapping probes.
AnalysisInputs ==
    {[LocalIPs |-> <<>>, MappingProbes |-> l, FirewallProbes |-> NilFirewall] :
        l \in Lists(AnProbes, MaxProbes) \cup Lists(TallyProbes, MaxTally)}
      \cup {[LocalIPs |-> <<>>, MappingProbes |-> <<>>, FirewallProbes |-> fw] :
              fw \in AnFirewalls}

\* The indices of the non-timeout probes of l.
NonTimeout(l) == {i \in DOMAIN l : ~l[i].Timeout}

\* noData: no mapping probe, or every one a timeout.
noData(r) == NonTimeout(r.MappingProbes) = {}

\* noNAT: every non-timeout probe's mapped IP is one of the local IPs.
noNAT(r) ==
    \A i \in NonTimeout(r.MappingProbes) :
        \E k \in DOMAIN r.LocalIPs : r.LocalIPs[k] = r.MappingProbes[i].Mapped.IP

\* The anchor a scan starts with: local = "", the other fields nil.
NoAnchor == [local |-> <<>>, remote |-> NilAddr, mapped |-> NilAddr]

\* The part of a remote endpoint a scan compares: probe.Remote.IP in
\* mappingVariesByDestIP, probe.Remote.Port in mappingVariesByDestPort.
Axis(axis, addr) == IF axis = "ip" THEN addr.IP ELSE addr.Port

\* A scan whose anchor is the first non-timeout probe for good.
IsAnchor_First(probe, a) == a.local = <<>>

\* if probe.Local.String() != local
IsAnchor(probe, a) == AddrString(probe.Local) # a.local

\* The loop of mappingVariesByDestIP (axis "ip") and of
\* mappingVariesByDestPort (axis "port") from probe i on, with anchor a.
RECURSIVE mappingVariesScan(_, _, _, _)
mappingVariesScan(l, i, a, axis) ==
    IF i > Len(l) THEN FALSE
    ELSE LET probe == l[i] IN
         IF probe.Timeout THEN mappingVariesScan(l, i + 1, a, axis)
         ELSE IF IsAnchor(probe, a)
              THEN mappingVariesScan(l, i + 1,
                       [local |-> AddrString(probe.Local), remote |-> probe.Remote,
                        mapped |-> probe.Mapped], axis)
              ELSE IF Axis(axis, probe.Remote) = Axis(axis, a.remote)
                   THEN mappingVariesScan(l, i + 1, a, axis)
                   ELSE IF probe.Mapped.IP # a.mapped.IP \/ probe.Mapped.Port # a.mapped.Port
                        THEN TRUE
                        ELSE mappingVariesScan(l, i + 1, a, axis)

mappingVariesByDestIP(r) == mappingVariesScan(r.MappingProbes, 1, NoAnchor, "ip")

mappingVariesByDestPort(r) == mappingVariesScan(r.MappingProbes, 1, NoAnchor, "port")

\* A loop that returns true as soon as one source matches.
EveryReceived_Some(recv, i, out, axis) ==
    recv = <<>> \/ \E k \in DOMAIN recv : Axis(axis, recv[k]) = Axis(axis, out)

\* for _, recv := range r.FirewallProbes.Received: false at the first
\* source whose IP (port) is not the remote's, true when the loop ends.
RECURSIVE EveryReceived(_, _, _, _)
EveryReceived(recv, i, out, axis) ==
    IF i > Len(recv) THEN TRUE
    ELSE IF Axis(axis, recv[i]) # Axis(axis, out) THEN FALSE
         ELSE EveryReceived(recv, i + 1, out, axis)

firewallEnforcesDestIP(r) ==
    IF r.FirewallProbes.nil THEN FALSE
    ELSE EveryReceived(r.FirewallProbes.Received, 1, r.FirewallProbes.Remote, "ip")

firewallEnforcesDestPort(r) ==
    IF r.FirewallProbes.nil THEN FALSE
    ELSE EveryReceived(r.FirewallProbes.Received, 1, r.FirewallProbes.Remote, "port")

\* The loop of mappingPreservesSourcePort: total and preserved.
RECURSIVE Tally(_, _)
Tally(l, i) ==
    IF i > Len(l) THEN [total |-> 0, preserved |-> 0]
    ELSE LET rest == Tally(l, i + 1) IN
         IF l[i].Timeout THEN rest
         ELSE [total |-> rest.total + 1,
               preserved |-> rest.preserved
                               + (IF l[i].Local.Port = l[i].Mapped.Port THEN 1 ELSE 0)]

\* The test the comment of the code describes: more than 80%.
AtLeast80_Strict(preserved, total) == total # 0 /\ 10 * preserved > 8 * total

\* (float64(preserved) / float64(total)) >= 0.8.  With total = 0 the
\* quotient is NaN, and NaN >= 0.8 is false.  Otherwise the division is
\* correctly rounded and 0.8 is the double nearest to 4/5, so for counts of
\* this size the comparison is that of the exact quotient with 8/10.
AtLeast80(preserved, total) == total # 0 /\ 10 * preserved >= 8 * total

mappingPreservesSourcePort(r) ==
    LET t == Tally(r.MappingProbes, 1) IN AtLeast80(t.preserved, t.total)

\* multiplePublicIPs: more than one mapped IP among the non-timeout probes.
multiplePublicIPs(r) ==
    Cardinality({r.MappingProbes[i].Mapped.IP : i \in NonTimeout(r.MappingProbes)}) > 1

\* The first loop of filteredEgress: the remote ports of non-timeout probes.
WorkingPorts(l) == {l[i].Remote.Port : i \in NonTimeout(l)}

\* The second loop of filteredEgress from probe i on: the remote port of
\* every timeout probe whose port is not in working, which then gains it.
RECURSIVE FilteredFrom(_, _, _)
FilteredFrom(l, i, working) ==
    IF i > Len(l) THEN <<>>
    ELSE IF l[i].Timeout /\ l[i].Remote.Port \notin working
         THEN <<l[i].Remote.Port>> \o FilteredFrom(l, i + 1, working \cup {l[i].Remote.Port})
         ELSE FilteredFrom(l, i + 1, working)

\* A filteredEgress that returns the ports in the order it found them.
SortInts_Keep(q) == q

\* sort.Ints(ret): the elements of q in ascending order.
RECURSIVE SortInts(_)
SortInts(q) ==
    IF q = <<>> THEN <<>>
    ELSE LET k == CHOOSE i \in DOMAIN q : \A j \in DOMAIN q : q[i] <= q[j]
         IN <<q[k]>> \o SortInts(SubSeq(q, 1, k - 1) \o SubSeq(q, k + 1, Len(q)))

filteredEgress(r) ==
    SortInts(FilteredFrom(r.MappingProbes, 1, WorkingPorts(r.MappingProbes)))

\* (*Result).Analyze
Analyze(r) ==
    [NoData                     |-> noData(r),
     NoNAT                      |-> noNAT(r),
     MappingVariesByDestIP      |-> mappingVariesByDestIP(r),
     MappingVariesByDestPort    |-> mappingVariesByDestPort(r),
     FirewallEnforcesDestIP     |-> firewallEnforcesDestIP(r),
     FirewallEnforcesDestPort   |-> firewallEnforcesDestPort(r),
     MappingPreservesSourcePort |-> mappingPreservesSourcePort(r),
     MultiplePublicIPs          |-> multiplePublicIPs(r),
     FilteredEgress             |-> filteredEgress(r)]

\* The zero Analysis.
NoAnalysis ==
    [NoData |-> FALSE, NoNAT |-> FALSE, MappingVariesByDestIP |-> FALSE,
     MappingVariesByDestPort |-> FALSE, FirewallEnforcesDestIP |-> FALSE,
     FirewallEnforcesDestPort |-> FALSE, MappingPreservesSourcePort |-> FALSE,
     MultiplePublicIPs |-> FALSE, FilteredEgress |-> <<>>]

\* A Result is at hand and Analyze has not been called on it.
InitAnalyze ==
    /\ ProbeInit
    /\ server = NotRun
    /\ anonymized = NotRun
    /\ \E r \in AnalysisInputs : analysis = [r |-> r, done |-> FALSE, a |-> NoAnalysis]

\* a := r.Analyze()
CallAnalyze ==
    /\ ~analysis.done
    /\ analysis' = [analysis EXCEPT !.done = TRUE, !.a = Analyze(analysis.r)]
    /\ UNCHANGED <<probeAll, server, anonymized>>

SpecAnalyze == InitAnalyze /\ [][CallAnalyze]_vars

(* -------------------------------------------------------------- Anonymize *)

\* A net.IP is a byte slice: empty, 4 bytes, or 16 bytes.  net.IPv4 returns
\* the 16-byte form of an IPv4 address.
IPv4(a, b, c, d) == <<0, 0, 0, 0, 0, 0, 0, 0, 0, 0, 255, 255, a, b, c, d>>

\* ip.To4(): the 4-byte form of an IPv4 address in either form.
To4(ip) == IF Len(ip) = 16 THEN SubSeq(ip, 13, 16) ELSE ip

\* ip.String(): both forms of an IPv4 address print alike.
IPString(ip) == To4(ip)

\* len(ip) == 0 || ip.IsUnspecified()
NothingToAnonymize(ip) == Len(ip) = 0 \/ To4(ip) = <<0, 0, 0, 0>>

\* The IPs of the Results given to Anonymize: the empty IP, 0.0.0.0, two
\* forms of 10.0.0.1, 10.0.0.2, and 1.1.1.1.
EmptyIP == <<>>

UnspecIP == <<0, 0, 0, 0>>

IPa4 == <<10, 0, 0, 1>>

IPa16 == IPv4(10, 0, 0, 1)

IPb == <<10, 0, 0, 2>>

IPo == <<1, 1, 1, 1>>

\* A nil *net.UDPAddr, and an address.
NilUDP == [nil |-> TRUE, IP |-> EmptyIP, Port |-> 0]

UDP(ip, port) == [nil |-> FALSE, IP |-> ip, Port |-> port]

\* a, b := byte(1), byte(1) and the empty map.
AnonStart == [ips |-> {}, a |-> 1, b |-> 1]

\* A substitution that hands out the same address again.
NextCounter_Stuck(st) == [a |-> st.a, b |-> st.b]

\* b++; if b == 0 { a++ } on bytes.
NextCounter(st) ==
    LET b == (st.b + 1) % 256 IN [a |-> IF b = 0 THEN (st.a + 1) % 256 ELSE st.a, b |-> b]

\* The closure anonymize: the IP returned for ip and the state after.
anonymize(st, ip) ==
    IF NothingToAnonymize(ip) THEN [st |-> st, ip |-> ip]
    ELSE IF \E e \in st.ips : e.k = IPString(ip)
         THEN [st |-> st, ip |-> (CHOOSE e \in st.ips : e.k = IPString(ip)).v]
         ELSE LET out == IPv4(st.a, st.a, st.b, st.b)
                  n == NextCounter(st)
              IN [st |-> [ips |-> st.ips \cup {[k |-> IPString(ip), v |-> out]},
                          a |-> n.a, b |-> n.b],
                  ip |-> out]

\* for i, ip := range r.LocalIPs { r.LocalIPs[i] = anonymize(ip) }, and the
\* loop over FirewallProbes.Received: the list from element i on.
RECURSIVE AnonIPs(_, _, _)
AnonIPs(st, l, i) ==
    IF i > Len(l) THEN [st |-> st, l |-> <<>>]
    ELSE LET x == anonymize(st, l[i])
             rest == AnonIPs(x.st, l, i + 1)
         IN [st |-> rest.st, l |-> <<x.ip>> \o rest.l]

\* for _, probe := range r.MappingProbes, from probe i on: Local.IP,
\* Mapped.IP, Remote.IP in this order.  probe.Mapped.IP on a nil Mapped is a
\* nil pointer dereference: the call panics there, with Local.IP of this
\* probe already replaced and the later probes untouched.
RECURSIVE AnonProbesFrom(_, _, _)
AnonProbesFrom(st, l, i) ==
    IF i > Len(l) THEN [st |-> st, l |-> <<>>, panicked |-> FALSE]
    ELSE LET probe == l[i]
             x1 == anonymize(st, probe.Local.IP)
         IN IF probe.Mapped.nil
            THEN [st |-> x1.st,
                  l |-> <<[probe EXCEPT !.Local.IP = x1.ip]>> \o SubSeq(l, i + 1, Len(l)),
                  panicked |-> TRUE]
            ELSE LET x2 == anonymize(x1.st, probe.Mapped.IP)
                     x3 == anonymize(x2.st, probe.Remote.IP)
                     rest == AnonProbesFrom(x3.st, l, i + 1)
                 IN [st |-> rest.st,
                     l |-> <<[probe EXCEPT !.Local.IP = x1.ip, !.Mapped.IP = x2.ip,
                                           !.Remote.IP = x3.ip]>> \o rest.l,
                     panicked |-> rest.panicked]

\* The FirewallProbe after the last part of Anonymize, from state st.
AnonFirewall(st, fw) ==
    LET f1 == anonymize(st, fw.Local.IP)
        f2 == anonymize(f1.st, fw.Remote.IP)
        rc == AnonIPs(f2.st, [k \in DOMAIN fw.Received |-> fw.Received[k].IP], 1)
    IN [fw EXCEPT !.Local.IP = f1.ip, !.Remote.IP = f2.ip,
                  !.Received = [k \in DOMAIN fw.Received |->
                                  [fw.Received[k] EXCEPT !.IP = rc.l[k]]]]

\* (*Result).Anonymize: the Result the call leaves, and whether it panicked.
Anonymize(r) ==
    LET locals == AnonIPs(AnonStart, r.LocalIPs, 1)
        probes == AnonProbesFrom(locals.st, r.MappingProbes, 1)
    IN [r |-> [LocalIPs |-> locals.l,
               MappingProbes |-> probes.l,
               FirewallProbes |-> IF probes.panicked \/ r.FirewallProbes.nil
                                  THEN r.FirewallProbes
                                  ELSE AnonFirewall(probes.st, r.FirewallProbes)],
        panicked |-> probes.panicked]

\* The Results given to Anonymize.
AnonNilFirewall == [nil |-> TRUE, Local |-> NilUDP, Remote |-> NilUDP, Received |-> <<>>]

AnonLocalIPs == {EmptyIP, UnspecIP, IPa4}

AnonProbeSet ==
    {[Local |-> UDP(UnspecIP, 6000), Mapped |-> m, Remote |-> UDP(rip, 80),
      Timeout |-> m.nil] :
        m \in {UDP(IPa16, 6000), UDP(IPo, 6000), NilUDP}, rip \in {IPb, IPa4}}

AnonReceived == {UDP(IPa4, 80), UDP(IPo, 80)}

AnonFirewalls ==
    {AnonNilFirewall}
      \cup {[nil |-> FALSE, Local |-> UDP(UnspecIP, 6001), Remote |-> UDP(IPb, 80),
              Received |-> rc] : rc \in Lists(AnonReceived, MaxAnonList)}

AnonInputs ==
    {[LocalIPs |-> ips, MappingProbes |-> l, FirewallProbes |-> fw] :
        ips \in Lists(AnonLocalIPs, MaxAnonList), l \in Lists(AnonProbeSet, MaxAnonList),
        fw \in AnonFirewalls}

\* A Result is at hand and Anonymize has not been called on it.
InitAnonymize ==
    /\ ProbeInit
    /\ server = NotRun
    /\ analysis = NotRun
    /\ \E r \in AnonInputs :
         anonymized = [r |-> r, done |-> FALSE, out |-> r, panicked |-> FALSE]

\* r.Anonymize()
CallAnonymize ==
    /\ ~anonymized.done
    /\ LET x == Anonymize(anonymized.r) IN
         anonymized' = [anonymized EXCEPT !.done = TRUE, !.out = x.r,
                                          !.panicked = x.panicked]
    /\ UNCHANGED <<probeAll, server, analysis>>

SpecAnonymize == InitAnonymize /\ [][CallAnonymize]_vars

(* ------------------------------------------------------------ properties *)

\* The mapping phase has handed Probe a list: every socket task was
\* collected and none returned an error.
MappingDone ==
    /\ Len(collected) = NumSockets
    /\ \A s \in Sockets : res[s].err = "none"

\* Probe returned a Result.
Succeeded == pcProbe = "returned" /\ ~result.nil

\* Indices of the probes of list l with the given local, remote and timeout.
Matching(l, local, remote, timeout) ==
    {i \in DOMAIN l : l[i].Local = local /\ l[i].Remote = remote /\ l[i].Timeout = timeout}

\* C1: in the Result of a successful Probe, for every mapping socket s and
\* every destination d there is exactly one timeout probe (s, d) iff there
\* is no non-timeout probe (s, d).
C1_TimeoutIffNoReply ==
    Succeeded =>
        \A s \in Sockets : \A d \in DestSet :
            (Cardinality(Matching(result.MappingProbes, LocalAddr(s), d, TRUE)) = 1)
              <=> (Matching(result.MappingProbes, LocalAddr(s), d, FALSE) = {})

\* C2: when no mapping socket ever offers a destination and no I/O fails,
\* the firewall task ends with a nil FirewallProbe and no error, and Probe
\* returns a non-nil Result whose FirewallProbes is nil.
C2_NoWorkingDestinationSucceeds ==
    ((\A s \in Sockets : seen[s] = {}) /\ Failures = 0) =>
        /\ fwPc \in {"sending", "exited"} => (fwErr = "none" /\ firewall.nil)
        /\ pcProbe = "returned" =>
             (~result.nil /\ probeErr = "none" /\ result.FirewallProbes.nil)

\* C3: the handoff is closed only after every socket task has finished, so
\* no mapping socket task ever sends on the handoff after it was closed
\* (such a send panics).
C3_NoOfferAfterClose == ~panicked

\* C4: the firewall task receives at most one destination from the handoff,
\* the handoff never holds more than one, and no socket task waits in an
\* offer.
C4_HandoffAtMostOne ==
    /\ Len(handed) <= 1
    /\ Len(workingAddr.buf) <= 1
    /\ \A s \in Sockets : pc[s] # "offering"

\* Three offers were made: one was delivered, one is buffered, one dropped.
C4_Witness ==
    /\ SumSeen(Sockets) = 3
    /\ Len(handed) = 1
    /\ Len(workingAddr.buf) = 1

\* C5: when the outer context is cancelled while a phase is running, Probe
\* does not return a Result.
C5_CancelDiscardsResult ==
    (ctxCancelled /\ pcProbe = "returned") => result.nil

\* C6: when a mapping socket task or the firewall task failed with a bind
\* failure or a non-timeout read failure, what Probe returns is an error
\* and a nil Result.
C6_FatalErrorNoResult ==
    (/\ pcProbe = "returned"
     /\ \/ \E s \in Sockets : res[s].err \in {"bind", "read"}
        \/ fwErr \in {"bind", "read"})
      => (result.nil /\ probeErr # "none")

\* One socket task succeeded with probes and was collected, another failed
\* reading, and Probe has returned.
C6_Witness ==
    /\ pcProbe = "returned"
    /\ \E s, u \in Sockets :
         /\ res[s].err = "read"
         /\ pc[u] = "exited" /\ res[u].err = "none" /\ Len(res[u].probes) > 0

\* C7: in the list the mapping phase aggregates, the probes of one socket
\* are contiguous: no i < j < k with probes i and k of one local endpoint
\* and probe j of another.
C7_ContiguousPerSocket ==
    \A i, j, k \in DOMAIN agg :
        (i < j /\ j < k /\ agg[i].Local = agg[k].Local) => agg[j].Local = agg[i].Local

\* The phase returned three probes of two sockets.
C7_Witness ==
    /\ MappingDone
    /\ Len(agg) >= 3
    /\ \E i, j \in DOMAIN agg : agg[i].Local # agg[j].Local

\* The concatenation of the returned lists of the sockets of order, in order.
RECURSIVE ConcatBy(_)
ConcatBy(order) ==
    IF order = <<>> THEN <<>>
    ELSE res[Head(order)].probes \o ConcatBy(Tail(order))

\* The sockets in the order they were started.
StartOrder == [i \in 1..NumSockets |-> i]

\* C8 as stated: the aggregated list is the concatenation of the per-socket
\* lists in socket-start order, whatever the order the tasks finish in.
C8_StartOrder == MappingDone => agg = ConcatBy(StartOrder)

\* C8 amended: the aggregated list is the concatenation of the per-socket
\* lists in the order in which the socket tasks delivered their results.
C8_CompletionOrder ==
    (\A i \in DOMAIN collected : res[collected[i]].err = "none") => agg = ConcatBy(collected)

\* The first socket started was not the first to finish, and both lists
\* have probes.
C8_Witness ==
    /\ MappingDone
    /\ collected[1] # 1
    /\ Len(res[1].probes) > 0
    /\ Len(res[collected[1]].probes) > 0

\* C9 as stated: for each (socket, destination) pair the result holds at
\* most one non-timeout probe.
C9_OneReplyPerDestination ==
    Succeeded =>
        \A s \in Sockets : \A i, j \in DOMAIN result.MappingProbes :
            LET l == result.MappingProbes IN
            (/\ ~l[i].Timeout /\ ~l[j].Timeout
             /\ l[i].Local = LocalAddr(s) /\ l[j].Local = LocalAddr(s)
             /\ l[i].Remote = l[j].Remote) => i = j

\* C9 amended: for each (socket, destination, mapped endpoint) triple the
\* result holds at most one non-timeout probe; reflections of one
\* destination that report different public endpoints are all kept.
C9_OneReplyPerMapping ==
    Succeeded =>
        \A i, j \in DOMAIN result.MappingProbes :
            LET l == result.MappingProbes IN
            (/\ ~l[i].Timeout /\ ~l[j].Timeout
             /\ l[i].Local = l[j].Local
             /\ l[i].Remote = l[j].Remote
             /\ l[i].Mapped = l[j].Mapped) => i = j

\* The result holds two non-timeout probes of one socket and one destination
\* with different mapped endpoints.
C9_Witness ==
    /\ Succeeded
    /\ \E i, j \in DOMAIN result.MappingProbes :
         LET l == result.MappingProbes IN
         /\ ~l[i].Timeout /\ ~l[j].Timeout
         /\ l[i].Local = l[j].Local
         /\ l[i].Remote = l[j].Remote
         /\ l[i].Mapped # l[j].Mapped

\* No two records of l have the same (local, mapped, remote, timeout).
DistinctRecords(l) == \A i, j \in DOMAIN l : l[i] = l[j] => i = j

IsPrefix(a, b) == Len(a) <= Len(b) /\ \A i \in DOMAIN a : a[i] = b[i]

\* C10: a socket's probe list never holds two records with the same identity
\* tuple, it changes only by gaining records at its end (so it holds first
\* occurrences in receive order), and a step of the read loop adds at most
\* one record, a reflection this socket had not recorded.
C10_DistinctInReceiveOrder ==
    [][\A s \in Sockets :
          /\ IsPrefix(ret[s], ret'[s])
          /\ DistinctRecords(ret'[s])
          /\ DistinctRecords(res'[s].probes)
          /\ (pc[s] = "reading" /\ pc'[s] = "reading" /\ ret'[s] # ret[s]) =>
                \E f \in Frames :
                    /\ f.n = ReflectionLen
                    /\ \A i \in DOMAIN ret[s] : ret[s][i] # ProbeOf(s, f)
                    /\ ret'[s] = Append(ret[s], ProbeOf(s, f))]_vars

\* A socket has recorded three distinct reflections and is still reading: any
\* further reflection repeats one of them.
C10_Witness ==
    \E s \in Sockets : pc[s] = "reading" /\ Len(ret[s]) = 3 /\ Cardinality(seen[s]) = 3

\* C11: on every exit path of a mapping socket task and of the firewall task
\* after its socket was bound (read deadline reached, fatal read error,
\* failure to set the deadline) the task's socket is closed when the task
\* reports its outcome; a task whose bind failed has no socket.
C11_SocketClosedBeforeReport ==
    /\ \A s \in Sockets :
         pc[s] \in {"sending", "exited"} =>
            conn[s] = (IF res[s].err = "bind" THEN "none" ELSE "closed")
    /\ fwPc \in {"sending", "exited"} =>
         fwConn = (IF fwErr \in {"bind", NilDestError} THEN "none" ELSE "closed")

\* One socket task failed to set its deadline, another ended at the read
\* deadline, the firewall task ended with a read error, and each has
\* reported with its socket closed.
C11_Witness ==
    /\ \E s, u \in Sockets :
         /\ pc[s] \in {"sending", "exited"} /\ res[s].err = "setdeadline"
         /\ pc[u] \in {"sending", "exited"} /\ res[u].err = "none"
         /\ conn[s] = "closed" /\ conn[u] = "closed"
    /\ fwPc \in {"sending", "exited"} /\ fwErr = "read" /\ fwConn = "closed"

\* C12 as stated: the k-th request of the firewall transmitter (k = 0, 1,
\* ...) carries k mod 4 in byte 0, the sequence starting at 0, and every
\* mapping request carries 0.  After k + 1 writes req0 is the byte the k-th
\* request carried.
C12_CycleFromZero ==
    \A t \in TxIds :
        tx[t].sent >= 1 =>
            tx[t].req0 = (IF Cycle(t) THEN (tx[t].sent - 1) % 4 ELSE 0)

\* C12 amended: byte 0 is incremented before the write, so the k-th request
\* of the firewall transmitter carries (k + 1) mod 4, the sequence 1, 2, 3,
\* 0, 1, ...; every mapping request carries 0.
C12_CycleFromOne ==
    \A t \in TxIds :
        tx[t].sent >= 1 =>
            tx[t].req0 = (IF Cycle(t) THEN tx[t].sent % 4 ELSE 0)

\* The firewall transmitter made five writes, the last carrying 1 again,
\* and a mapping transmitter made a further write.
C12_Witness ==
    /\ tx[FirewallTx].sent = 5 /\ tx[FirewallTx].req0 = 1
    /\ \E s \in Sockets : tx[s].sent > Len(Dests)

\* C20: a read that ends at the read deadline ends the mapping socket task
\* (the firewall task) with the records collected so far and a nil error;
\* a failed write changes nothing of the run and leaves the goroutine
\* running, and a transmit goroutine returns only once its context is
\* done.
C20_TimeoutAndTransmitErrorsBenign ==
    [][/\ \A s \in Sockets :
            (pc[s] = "reading" /\ pc'[s] # "reading" /\ res'[s].err # "read") =>
                res'[s] = [probes |-> ret[s], err |-> "none"]
       /\ (fwPc = "reading" /\ fwPc' # "reading" /\ fwErr' # "read") =>
                (fwErr' = "none" /\ firewall' = fwRet)
       /\ \A t \in TxIds :
            /\ (tx'[t].sent > tx[t].sent /\ ~tx'[t].lastOk) =>
                  /\ UNCHANGED <<probeVars, sockVars, workingAddr, fwVars>>
                  /\ \A d \in DOMAIN tx[t].g : tx'[t].g[d] = "done" => tx[t].g[d] = "done"
            /\ \A d \in DOMAIN tx'[t].g :
                  (tx'[t].g[d] = "done" /\ tx[t].g[d] # "done") => CtxDone(t)]_vars

\* The first mapping socket returned at the deadline with its record and no
\* error; the firewall task is reading, and the last write of its
\* transmitter failed on the open socket and left the goroutine running.
C20_Witness ==
    /\ pc[1] = "exited" /\ res[1].err = "none" /\ Len(res[1].probes) = 1
    /\ fwPc = "reading" /\ fwConn = "open"
    /\ tx[FirewallTx].sent >= 2 /\ ~tx[FirewallTx].lastOk
    /\ tx[FirewallTx].g[1] = "select"

\* C19: the firewall transmitter exists only once some mapping socket has
\* recorded a reflection, and the remote of the FirewallProbe is the first
\* destination placed in the handoff, the source of a reflection a mapping
\* socket recorded.
C19_FirewallProbesFirstWorking ==
    /\ (tx[FirewallTx].g # <<>> \/ ~fwRet.nil) =>
          /\ ~fwRet.nil
          /\ fwRet.Remote = firstOffer
          /\ \E s \in Sockets : \E i \in DOMAIN ret[s] :
                ~ret[s][i].Timeout /\ ret[s][i].Remote = fwRet.Remote
    /\ (Succeeded /\ ~result.FirewallProbes.nil) =>
          result.FirewallProbes.Remote = firstOffer

\* Probe returned a FirewallProbe whose remote is the first destination
\* offered, while a later offer of another source stayed in the handoff.
C19_Witness ==
    /\ Succeeded
    /\ ~result.FirewallProbes.nil
    /\ result.FirewallProbes.Remote = Dests[1]
    /\ workingAddr.buf = <<Stray>>

\* The listeners of the server that differ from listener my in IP exactly
\* when vary_ip is set and in port exactly when vary_port is set.
Eligible(conns, my, b0) ==
    {j \in DOMAIN conns :
        /\ (conns[j].IP = conns[my].IP) # VaryAddr(b0)
        /\ (conns[j].Port = conns[my].Port) # VaryPort(b0)}

StartsRun(l, i) ==
    /\ i \in NonTimeout(l)
    /\ \A k \in NonTimeout(l) :
         (k < i /\ \A m \in NonTimeout(l) : ~(k < m /\ m < i)) => l[k].Local # l[i].Local

\* The anchor of non-timeout probe j: the last probe up to j that starts a
\* run.
AnchorOf(l, j) ==
    CHOOSE i \in NonTimeout(l) :
        /\ i <= j /\ StartsRun(l, i)
        /\ \A k \in NonTimeout(l) : (i < k /\ k <= j) => ~StartsRun(l, k)

\* Some non-timeout probe differs from its anchor in the compared part of
\* the remote endpoint and in the mapped IP or port.
VariesFromAnchor(l, axis) ==
    \E j \in NonTimeout(l) :
        LET a == l[AnchorOf(l, j)] IN
        /\ Axis(axis, l[j].Remote) # Axis(axis, a.Remote)
        /\ (l[j].Mapped.IP # a.Mapped.IP \/ l[j].Mapped.Port # a.Mapped.Port)

\* C14: mapping_varies_by_dest_ip (_port) is the result of the anchor scan:
\* timeouts are skipped, a non-timeout probe with another local endpoint
\* than the anchor's becomes the anchor, a probe with the anchor's remote IP
\* (port) is skipped, and the result is true exactly when some other probe
\* differs from its anchor in the mapped IP or port.
C14_AnchorScan ==
    analysis.done =>
        /\ analysis.a.MappingVariesByDestIP = VariesFromAnchor(analysis.r.MappingProbes, "ip")
        /\ analysis.a.MappingVariesByDestPort = VariesFromAnchor(analysis.r.MappingProbes, "port")

\* A list of a timeout, a reply, and a reply of the same socket from the
\* same IP and another port with another mapped port: the IP scan skips the
\* last probe, the port scan returns true on it.
C14_Witness ==
    /\ analysis.done
    /\ LET l == analysis.r.MappingProbes IN
         /\ Len(l) = 3 /\ l[1].Timeout /\ ~l[2].Timeout /\ ~l[3].Timeout
         /\ l[2].Local = l[3].Local /\ l[2].Remote.IP = l[3].Remote.IP
         /\ l[2].Mapped # l[3].Mapped
    /\ ~analysis.a.MappingVariesByDestIP
    /\ analysis.a.MappingVariesByDestPort

\* C15: firewall_enforces_dest_ip (_port) is false when the Result has no
\* firewall probe, true when the received list is empty, and otherwise true
\* exactly when every received source has the IP (port) of the remote.
C15_FirewallEnforces ==
    analysis.done =>
        LET fw == analysis.r.FirewallProbes IN
        /\ fw.nil => (~analysis.a.FirewallEnforcesDestIP /\ ~analysis.a.FirewallEnforcesDestPort)
        /\ (~fw.nil /\ fw.Received = <<>>) =>
              (analysis.a.FirewallEnforcesDestIP /\ analysis.a.FirewallEnforcesDestPort)
        /\ ~fw.nil =>
              /\ analysis.a.FirewallEnforcesDestIP
                    = (\A k \in DOMAIN fw.Received : fw.Received[k].IP = fw.Remote.IP)
              /\ analysis.a.FirewallEnforcesDestPort
                    = (\A k \in DOMAIN fw.Received : fw.Received[k].Port = fw.Remote.Port)

\* Two sources were received, both of the remote's IP, one of another port.
C15_Witness ==
    /\ analysis.done
    /\ ~analysis.r.FirewallProbes.nil
    /\ Len(analysis.r.FirewallProbes.Received) = 2
    /\ analysis.a.FirewallEnforcesDestIP
    /\ ~analysis.a.FirewallEnforcesDestPort

\* The remote ports of the mapping probes of l.
RemotePorts(l) == {l[i].Remote.Port : i \in DOMAIN l}

\* C16: filtered_egress is strictly ascending, hence without duplicates,
\* and holds port p exactly when some mapping probe has remote port p and
\* every mapping probe with remote port p is a timeout.
C16_FilteredEgress ==
    analysis.done =>
        LET l == analysis.r.MappingProbes
            out == analysis.a.FilteredEgress
        IN /\ \A i, j \in DOMAIN out : i < j => out[i] < out[j]
           /\ \A p \in RemotePorts(l) \cup {out[i] : i \in DOMAIN out} :
                (\E i \in DOMAIN out : out[i] = p)
                  <=> (/\ \E i \in DOMAIN l : l[i].Remote.Port = p
                       /\ \A i \in DOMAIN l : l[i].Remote.Port = p => l[i].Timeout)

\* Three timeouts, of ports 443, 80 and 443 in this order, give 80, 443.
C16_Witness ==
    /\ analysis.done
    /\ LET l == analysis.r.MappingProbes IN
         /\ Len(l) = 3
         /\ l[1].Timeout /\ l[2].Timeout /\ l[3].Timeout
         /\ l[1].Remote.Port = 443 /\ l[2].Remote.Port = 80 /\ l[3].Remote.Port = 443
    /\ analysis.a.FilteredEgress = <<80, 443>>

RECURSIVE ProbeIPs(_)
ProbeIPs(l) ==
    IF l = <<>> THEN <<>>
    ELSE <<Head(l).Local.IP, Head(l).Mapped.IP, Head(l).Remote.IP>> \o ProbeIPs(Tail(l))

\* Every IP of a Result: local IPs, mapping probes, firewall probe.
ResultIPs(r) ==
    r.LocalIPs \o ProbeIPs(r.MappingProbes)
      \o (IF r.FirewallProbes.nil THEN <<>>
          ELSE <<r.FirewallProbes.Local.IP, r.FirewallProbes.Remote.IP>>
                 \o [k \in DOMAIN r.FirewallProbes.Received |->
                       r.FirewallProbes.Received[k].IP])

\* C18: in a call of Anonymize that returns, two occurrences of the same
\* non-unspecified IP anywhere in the Result get the same output, two
\* distinct non-unspecified IPs get distinct outputs, and unspecified or
\* empty IPs are left unchanged.
C18_ConsistentInjective ==
    (anonymized.done /\ ~anonymized.panicked) =>
        LET in == ResultIPs(anonymized.r)
            out == ResultIPs(anonymized.out)
        IN /\ Len(out) = Len(in)
           /\ \A i \in DOMAIN in :
                IF NothingToAnonymize(in[i]) THEN out[i] = in[i]
                ELSE \A j \in DOMAIN in :
                        ~NothingToAnonymize(in[j]) =>
                            ((IPString(in[i]) = IPString(in[j])) <=> (out[i] = out[j]))

\* 10.0.0.1 occurs as a local IP, as a mapped IP in the other form and as a
\* received source, next to 10.0.0.2 and the unspecified local IP of the
\* probe.
C18_Witness ==
    /\ anonymized.done /\ ~anonymized.panicked
    /\ anonymized.r.LocalIPs = <<IPa4>>
    /\ Len(anonymized.r.MappingProbes) = 1
    /\ anonymized.r.MappingProbes[1].Mapped.IP = IPa16
    /\ anonymized.r.MappingProbes[1].Remote.IP = IPb
    /\ ~anonymized.r.FirewallProbes.nil
    /\ anonymized.r.FirewallProbes.Received = <<UDP(IPa4, 80)>>
    /\ anonymized.out.LocalIPs = <<IPv4(1, 1, 1, 1)>>
    /\ anonymized.out.FirewallProbes.Remote.IP = IPv4(1, 1, 2, 2)

\* The string forms of the endpoints of a list.
AddrStrings(l) == {AddrString(l[i]) : i \in DOMAIN l}

DistinctStrings(l) ==
    \A i, j \in DOMAIN l : AddrString(l[i]) = AddrString(l[j]) => i = j

\* C21: the received list of the firewall probe never holds two endpoints
\* with the same string form; while the firewall task reads, a step changes
\* the list only by appending the source of an 18-byte frame whose string
\* the list does not hold yet (so the list is in order of first receipt and
\* a frame of another length adds nothing); the strings of the list are
\* exactly the sources the task has read 18-byte frames from, and the list
\* the task returns is the list it built.
C21_ReceivedDistinctInOrder ==
    [][/\ DistinctStrings(fwRet'.Received)
       /\ AddrStrings(fwRet'.Received) = fwSeen'
       /\ IsPrefix(fwRet.Received, fwRet'.Received)
       /\ fwRet'.Received # fwRet.Received =>
            /\ fwPc = "reading" /\ fwPc' = "reading"
            /\ \E f \in Frames :
                 /\ f.n = ReflectionLen
                 /\ AddrString(f.src) \notin AddrStrings(fwRet.Received)
                 /\ fwRet'.Received = Append(fwRet.Received, f.src)
       /\ (fwPc = "reading" /\ fwPc' = "sending" /\ fwErr' = "none") =>
            firewall'.Received = fwRet.Received]_vars

\* Probe returned a Result whose firewall probe received from the stray
\* endpoint first and from the probed destination second.
C21_Witness ==
    /\ Succeeded
    /\ result.FirewallProbes.Received = <<Stray, Dests[1]>>
    /\ fwSeen = {AddrString(Stray), AddrString(Dests[1])}

\* C25: in the Result of a successful Probe the remote endpoint of every
\* non-timeout mapping probe, and the remote endpoint of the firewall probe,
\* is one of the destinations the sockets transmitted to.
C25_RemoteInDests ==
    Succeeded =>
        /\ \A i \in DOMAIN result.MappingProbes :
             ~result.MappingProbes[i].Timeout => result.MappingProbes[i].Remote \in DestSet
        /\ ~result.FirewallProbes.nil => result.FirewallProbes.Remote \in DestSet

\* Two non-timeout probes of l from one local endpoint whose remotes differ
\* on the given axis only and whose mapped endpoints differ.
VariesOnlyBy(l, axis) ==
    \E i, j \in NonTimeout(l) :
        /\ l[i].Local = l[j].Local
        /\ Axis(axis, l[i].Remote) # Axis(axis, l[j].Remote)
        /\ Axis(IF axis = "ip" THEN "port" ELSE "ip", l[i].Remote)
             = Axis(IF axis = "ip" THEN "port" ELSE "ip", l[j].Remote)
        /\ l[i].Mapped # l[j].Mapped

\* C23: Analyze reports that the mapping varies by destination IP only for
\* a Result that holds two non-timeout probes with the same local endpoint,
\* the same remote port, different remote IPs and different mapped
\* endpoints, and that it varies by destination port only for one that
\* holds two with the same remote IP and different remote ports.
C23_VariesOnlyOnItsAxis ==
    analysis.done =>
        /\ analysis.a.MappingVariesByDestIP =>
             VariesOnlyBy(analysis.r.MappingProbes, "ip")
        /\ analysis.a.MappingVariesByDestPort =>
             VariesOnlyBy(analysis.r.MappingProbes, "port")

\* C24: a call of Anonymize returns without a panic on every Result, also on
\* one whose mapping probes hold timeout records (Mapped nil) and on one
\* without a firewall probe.
C24_AnonymizeCompletes ==
    anonymized.done => ~anonymized.panicked

\* Every mapping socket task and the firewall task have returned.
AllExited == (\A s \in Sockets : pc[s] = "exited") /\ fwPc = "exited"

\* C22: in every run of Probe that does not crash, every mapping socket
\* task hands its result to the coordinator and returns, and the firewall
\* task reports its outcome and returns.
C22_EveryTaskTerminates ==
    <>(panicked \/ AllExited)

====
